---------------------------- MODULE Spec2Model ----------------------------
(***************************************************************************)
(* State-machine model of the catcollector request handlers                *)
(* (main_app/views.py).  The state is the relational record store (users,  *)
(* cats, toys, the cat-toy junction table, feedings, photos) and the       *)
(* response to the last request, which also records the outcome of the     *)
(* request's object-storage upload.  Every action is one request handled   *)
(* to completion.  Toy rows are identified by their primary key; the views *)
(* that only render (home, about, ToyList, ToyDetail) or rewrite a toy's   *)
(* name and color (ToyUpdate) do not touch this state.                     *)
(***************************************************************************)
EXTENDS Integers, Sequences, FiniteSets, TLC

(* ------------------------------ bounds --------------------------------- *)
MaxCats == 1          \* primary keys handed out to cats
MaxToys == 1          \* primary keys handed out to toys
MaxFeedings == 1      \* primary keys handed out to feedings

(* ------------------------- program constants --------------------------- *)
S3_BASE_URL == "https://s3.us-east-2.amazonaws.com/"
BUCKET == "djangocatcollectorproject"

(* ------------------------------ inputs --------------------------------- *)
AnonymousUser == "AnonymousUser"
UserNames == {"alice", "bob"}
CatIds == 1..MaxCats
ToyIds == 1..MaxToys
Names == {"Tom"}
Breeds == {"Tabby"}
\* the age field as posted, and IntegerField's parse of it
to_python == [a \in {"3", "4"} |-> IF a = "3" THEN 3 ELSE 4]
\* posted cat forms: two that validate, one whose age is no integer
CatForms == {[description |-> "lazy", age |-> "3"],
             [description |-> "loud", age |-> "4"],
             [description |-> "lazy", age |-> "abc"]}
MEALS == {"B", "L", "D"}
ValidDates == {"2023-04-05"}
\* posted feeding forms: one that validates, a bad meal, a bad date
FeedingForms == {[meal |-> "B", date |-> "2023-04-05"],
                 [meal |-> "X", date |-> "2023-04-05"],
                 [meal |-> "B", date |-> "someday"]}
\* uploaded file names, as sequences of characters
FileNames == {<<"a", ".", "p", "n", "g">>, <<"c", "a", "t">>}
\* request.FILES.get('photo-file', None) when nothing was submitted
NoFile == <<>>
\* uuid.uuid4().hex[:6]
Tokens == {"1f3a9c"}

VARIABLES users, cats, cat_seq, toys, toy_seq, cat_toys,
          feedings, feeding_seq, photos, response

vars == <<users, cats, cat_seq, toys, toy_seq, cat_toys,
          feedings, feeding_seq, photos, response>>

\* the record store of the cat-scoped routes
store == <<cats, cat_seq, toys, toy_seq, cat_toys, feedings, feeding_seq, photos>>

(* ------------------------------ helpers -------------------------------- *)
\* what a handler returns: a render with its context, a redirect or an error
Resp(op, status, context, upload) ==
    [op |-> op, status |-> status, context |-> context, upload |-> upload]

\* request.user.is_authenticated, as tested by @login_required / LoginRequiredMixin
is_authenticated(u) == u # AnonymousUser

Requesters == users \cup {AnonymousUser}

RECURSIVE Str(_)
Str(s) == IF s = <<>> THEN "" ELSE Head(s) \o Str(Tail(s))

\* str.rfind('.'): 0-based index of the last '.', or -1
rfind(s, ch) ==
    LET hits == {i \in 1..Len(s) : s[i] = ch}
    IN IF hits = {} THEN -1 ELSE (CHOOSE i \in hits : \A j \in hits : j <= i) - 1

\* s[i:] with Python's negative-index rule
slice_from(s, i) ==
    LET start == IF i < 0 THEN (IF Len(s) + i < 0 THEN 0 ELSE Len(s) + i) ELSE i
    IN SubSeq(s, start + 1, Len(s))

\* key = uuid.uuid4().hex[:6] + photo_file.name[photo_file.name.rfind('.'):]
photo_key(token, name) == token \o Str(slice_from(name, rfind(name, ".")))

photo_url(key) == S3_BASE_URL \o BUCKET \o "/" \o key

\* Cat.objects.filter(user=u)
cats_of(u) == {c \in DOMAIN cats : cats[c].user = u}

\* cat.toy.all().values_list('id')
cat_toy_ids(c) == {t \in ToyIds : cat_toys[<<c, t>>] > 0}

\* the exclude() forgotten: every toy is listed
toys_all(c) == toys

\* Toy.objects.exclude(id__in=cat_toy_ids)
toys_cat_doesnt_have(c) == {t \in toys : t \notin cat_toy_ids(c)}

(* ------------------------------ Init ----------------------------------- *)
Init ==
    /\ users = {}
    /\ cats = <<>>
    /\ cat_seq = 0
    /\ toys = {}
    /\ toy_seq = 0
    /\ cat_toys = [p \in CatIds \X ToyIds |-> 0]
    /\ feedings = {}
    /\ feeding_seq = 0
    /\ photos = {}
    /\ response = Resp("none", "none", {}, "none")

(* ------------------------------ signup --------------------------------- *)
signup(name, passwords_match) ==
    /\ IF name \notin users /\ passwords_match
       THEN /\ users' = users \cup {name}
            /\ response' = Resp("signup", "redirect:cats_index", {}, "none")
       ELSE /\ users' = users
            /\ response' = Resp("signup", "render:signup", {}, "none")
    /\ UNCHANGED <<store>>

(* ---------------------------- cats_index ------------------------------- *)
cats_index(u) ==
    /\ IF ~is_authenticated(u)
       THEN response' = Resp("cats_index", "redirect:login", {}, "none")
       ELSE response' = Resp("cats_index", "render", cats_of(u), "none")
    /\ UNCHANGED <<users, store>>

(* ---------------------------- cat_detail ------------------------------- *)
cat_detail(u, cat_id) ==
    /\ IF ~is_authenticated(u)
       THEN response' = Resp("cat_detail", "redirect:login", {}, "none")
       ELSE IF cat_id \notin DOMAIN cats
       THEN response' = Resp("cat_detail", "error:DoesNotExist", {}, "none")
       ELSE response' = Resp("cat_detail", "render",
                             toys_cat_doesnt_have(cat_id), "none")
    /\ UNCHANGED <<users, store>>

(* ---------------------------- add_feeding ------------------------------ *)
\* the foreign key not enforced
Feeding_no_fk(cat_id) == TRUE

\* the foreign key Feeding.cat -> Cat, enforced when the row is written
Feeding_cat_fk(cat_id) == cat_id \in DOMAIN cats

\* FeedingForm(request.POST).is_valid(): meal is one of the choices, date parses
FeedingForm_is_valid(meal, date) == meal \in MEALS /\ date \in ValidDates

\* the form saved without the is_valid() test
add_feeding_unvalidated(u, cat_id, meal, date) ==
    /\ IF ~is_authenticated(u)
       THEN /\ response' = Resp("add_feeding", "redirect:login", {}, "none")
            /\ UNCHANGED <<feedings, feeding_seq>>
       ELSE IF ~Feeding_cat_fk(cat_id)
       THEN /\ response' = Resp("add_feeding", "error:IntegrityError", {}, "none")
            /\ UNCHANGED <<feedings, feeding_seq>>
       ELSE /\ feeding_seq < MaxFeedings
            /\ feeding_seq' = feeding_seq + 1
            /\ feedings' = feedings \cup
                  {[id |-> feeding_seq + 1, cat_id |-> cat_id, date |-> date, meal |-> meal]}
            /\ response' = Resp("add_feeding", "redirect:cat_detail", {}, "none")
    /\ UNCHANGED <<users, cats, cat_seq, toys, toy_seq, cat_toys, photos>>

add_feeding(u, cat_id, meal, date) ==
    /\ IF ~is_authenticated(u)
       THEN /\ response' = Resp("add_feeding", "redirect:login", {}, "none")
            /\ UNCHANGED <<feedings, feeding_seq>>
       ELSE IF ~FeedingForm_is_valid(meal, date)
       THEN /\ response' = Resp("add_feeding", "redirect:cat_detail", {}, "none")
            /\ UNCHANGED <<feedings, feeding_seq>>
       ELSE IF ~Feeding_cat_fk(cat_id)
       THEN /\ response' = Resp("add_feeding", "error:IntegrityError", {}, "none")
            /\ UNCHANGED <<feedings, feeding_seq>>
       ELSE /\ feeding_seq < MaxFeedings
            /\ feeding_seq' = feeding_seq + 1
            /\ feedings' = feedings \cup
                  {[id |-> feeding_seq + 1, cat_id |-> cat_id, date |-> date, meal |-> meal]}
            /\ response' = Resp("add_feeding", "redirect:cat_detail", {}, "none")
    /\ UNCHANGED <<users, cats, cat_seq, toys, toy_seq, cat_toys, photos>>

(* ----------------------- assoc_toy / unassoc_toy ----------------------- *)
\* a junction row inserted without looking for an existing one
toy_add_unchecked(rows, cat_id, toy_id) ==
    [p \in DOMAIN rows |-> IF p = <<cat_id, toy_id>> THEN rows[p] + 1 ELSE rows[p]]

\* cat.toy.add(toy_id): inserts a junction row for the ids not yet linked
toy_add(rows, cat_id, toy_id) ==
    LET missing == {toy_id} \ {t \in ToyIds : rows[<<cat_id, t>>] > 0}
    IN [p \in DOMAIN rows |->
          IF p[1] = cat_id /\ p[2] \in missing THEN rows[p] + 1 ELSE rows[p]]

\* the add() call of assoc_toy left in place of remove()
toy_remove_as_add(rows, cat_id, toy_id) ==
    [p \in DOMAIN rows |-> IF p = <<cat_id, toy_id>> THEN 1 ELSE rows[p]]

\* cat.toy.remove(toy_id): deletes the junction rows of (cat, toy)
toy_remove(rows, cat_id, toy_id) ==
    [p \in DOMAIN rows |-> IF p = <<cat_id, toy_id>> THEN 0 ELSE rows[p]]

assoc_toy(u, cat_id, toy_id) ==
    /\ IF ~is_authenticated(u)
       THEN /\ response' = Resp("assoc_toy", "redirect:login", {}, "none")
            /\ UNCHANGED cat_toys
       ELSE IF cat_id \notin DOMAIN cats
       THEN /\ response' = Resp("assoc_toy", "error:DoesNotExist", {}, "none")
            /\ UNCHANGED cat_toys
       ELSE IF toy_id \notin toys
       THEN /\ response' = Resp("assoc_toy", "error:IntegrityError", {}, "none")
            /\ UNCHANGED cat_toys
       ELSE /\ cat_toys' = toy_add(cat_toys, cat_id, toy_id)
            /\ response' = Resp("assoc_toy", "redirect:cat_detail", {}, "none")
    /\ UNCHANGED <<users, cats, cat_seq, toys, toy_seq, feedings, feeding_seq,
                   photos>>

unassoc_toy(u, cat_id, toy_id) ==
    /\ IF ~is_authenticated(u)
       THEN /\ response' = Resp("unassoc_toy", "redirect:login", {}, "none")
            /\ UNCHANGED cat_toys
       ELSE IF cat_id \notin DOMAIN cats
       THEN /\ response' = Resp("unassoc_toy", "error:DoesNotExist", {}, "none")
            /\ UNCHANGED cat_toys
       ELSE /\ cat_toys' = toy_remove(cat_toys, cat_id, toy_id)
            /\ response' = Resp("unassoc_toy", "redirect:cat_detail", {}, "none")
    /\ UNCHANGED <<users, cats, cat_seq, toys, toy_seq, feedings, feeding_seq,
                   photos>>

(* ------------------------------ add_photo ------------------------------ *)
\* manager attributes of the Photo model class
Photo_managers == {"objects"}

\* the upload run without the "if photo_file" test
add_photo_always(u, cat_id, photo_file, upload_ok, token) ==
    /\ response' = Resp("add_photo", "redirect:cat_detail", {},
                        IF upload_ok THEN "ok" ELSE "failed")
    /\ UNCHANGED <<users, store>>

add_photo(u, cat_id, photo_file, upload_ok, token) ==
    /\ IF photo_file = NoFile
       THEN /\ response' = Resp("add_photo", "redirect:cat_detail", {}, "none")
            /\ UNCHANGED photos
       ELSE LET key == photo_key(token, photo_file)
                url == photo_url(key)
            IN IF ~upload_ok
               THEN \* s3.upload_fileobj raised: printed, swallowed
                    /\ response' = Resp("add_photo", "redirect:cat_detail", {}, "failed")
                    /\ UNCHANGED photos
               ELSE /\ response' = Resp("add_photo", "redirect:cat_detail", {}, "ok")
                    /\ IF "object" \in Photo_managers /\ cat_id \in DOMAIN cats
                       THEN photos' = photos \cup
                               {[id |-> Cardinality(photos) + 1, cat_id |-> cat_id, url |-> url]}
                       ELSE \* AttributeError / IntegrityError: printed, swallowed
                            photos' = photos
    /\ UNCHANGED <<users, cats, cat_seq, toys, toy_seq, cat_toys,
                   feedings, feeding_seq>>

(* ------------------- CatCreate / CatUpdate / CatDelete ----------------- *)
model_form_is_valid(age) == age \in DOMAIN to_python

CatCreate(u, name, breed, description, age) ==
    /\ IF ~is_authenticated(u)
       THEN /\ response' = Resp("CatCreate", "redirect:login", {}, "none")
            /\ UNCHANGED <<cats, cat_seq>>
       ELSE IF ~model_form_is_valid(age)
       THEN /\ response' = Resp("CatCreate", "render:cat_form", {}, "none")
            /\ UNCHANGED <<cats, cat_seq>>
       ELSE /\ cat_seq < MaxCats
            /\ cat_seq' = cat_seq + 1
            /\ cats' = [c \in DOMAIN cats \cup {cat_seq + 1} |->
                          IF c = cat_seq + 1
                          THEN [user |-> u, name |-> name, breed |-> breed,
                                description |-> description, age |-> to_python[age]]
                          ELSE cats[c]]
            /\ response' = Resp("CatCreate", "redirect:success_url", {}, "none")
    /\ UNCHANGED <<users, toys, toy_seq, cat_toys, feedings, feeding_seq, photos>>

CatUpdate(u, cat_id, description, age) ==
    /\ IF ~is_authenticated(u)
       THEN /\ response' = Resp("CatUpdate", "redirect:login", {}, "none")
            /\ UNCHANGED cats
       ELSE IF cat_id \notin DOMAIN cats
       THEN /\ response' = Resp("CatUpdate", "error:Http404", {}, "none")
            /\ UNCHANGED cats
       ELSE IF ~model_form_is_valid(age)
       THEN /\ response' = Resp("CatUpdate", "render:cat_form", {}, "none")
            /\ UNCHANGED cats
       ELSE /\ cats' = [cats EXCEPT ![cat_id].description = description,
                                    ![cat_id].age = to_python[age]]
            /\ response' = Resp("CatUpdate", "redirect:success_url", {}, "none")
    /\ UNCHANGED <<users, cat_seq, toys, toy_seq, cat_toys, feedings, feeding_seq,
                   photos>>

CatDelete(u, cat_id) ==
    /\ IF ~is_authenticated(u)
       THEN /\ response' = Resp("CatDelete", "redirect:login", {}, "none")
            /\ UNCHANGED <<cats, cat_toys, feedings, photos>>
       ELSE IF cat_id \notin DOMAIN cats
       THEN /\ response' = Resp("CatDelete", "error:Http404", {}, "none")
            /\ UNCHANGED <<cats, cat_toys, feedings, photos>>
       ELSE /\ cats' = [c \in DOMAIN cats \ {cat_id} |-> cats[c]]
            \* rows that reference the cat go with it
            /\ cat_toys' = [p \in DOMAIN cat_toys |-> IF p[1] = cat_id THEN 0 ELSE cat_toys[p]]
            /\ feedings' = {f \in feedings : f.cat_id # cat_id}
            /\ photos' = {p \in photos : p.cat_id # cat_id}
            /\ response' = Resp("CatDelete", "redirect:/cats/", {}, "none")
    /\ UNCHANGED <<users, cat_seq, toys, toy_seq, feeding_seq>>

(* ------------------------- ToyCreate / ToyDelete ----------------------- *)
ToyCreate(u) ==
    /\ IF ~is_authenticated(u)
       THEN /\ response' = Resp("ToyCreate", "redirect:login", {}, "none")
            /\ UNCHANGED <<toys, toy_seq>>
       ELSE /\ toy_seq < MaxToys
            /\ toy_seq' = toy_seq + 1
            /\ toys' = toys \cup {toy_seq + 1}
            /\ response' = Resp("ToyCreate", "redirect:success_url", {}, "none")
    /\ UNCHANGED <<users, cats, cat_seq, cat_toys, feedings, feeding_seq, photos>>

ToyDelete(u, toy_id) ==
    /\ IF ~is_authenticated(u)
       THEN /\ response' = Resp("ToyDelete", "redirect:login", {}, "none")
            /\ UNCHANGED <<toys, cat_toys>>
       ELSE IF toy_id \notin toys
       THEN /\ response' = Resp("ToyDelete", "error:Http404", {}, "none")
            /\ UNCHANGED <<toys, cat_toys>>
       ELSE /\ toys' = toys \ {toy_id}
            /\ cat_toys' = [p \in DOMAIN cat_toys |-> IF p[2] = toy_id THEN 0 ELSE cat_toys[p]]
            /\ response' = Resp("ToyDelete", "redirect:/toys/", {}, "none")
    /\ UNCHANGED <<users, cats, cat_seq, toy_seq, feedings, feeding_seq, photos>>

Next ==
    \/ \E n \in UserNames, m \in BOOLEAN : signup(n, m)
    \/ \E u \in Requesters : cats_index(u)
    \/ \E u \in Requesters, c \in CatIds : cat_detail(u, c)
    \/ \E u \in Requesters, c \in CatIds, f \in FeedingForms :
          add_feeding(u, c, f.meal, f.date)
    \/ \E u \in Requesters, c \in CatIds, t \in ToyIds : assoc_toy(u, c, t)
    \/ \E u \in Requesters, c \in CatIds, t \in ToyIds : unassoc_toy(u, c, t)
    \/ \E u \in Requesters, c \in CatIds, f \in FileNames \cup {NoFile}, ok \in BOOLEAN,
          k \in Tokens : add_photo(u, c, f, ok, k)
    \/ \E u \in Requesters, n \in Names, b \in Breeds, f \in CatForms :
          CatCreate(u, n, b, f.description, f.age)
    \/ \E u \in Requesters, c \in CatIds, f \in CatForms :
          CatUpdate(u, c, f.description, f.age)
    \/ \E u \in Requesters, c \in CatIds : CatDelete(u, c)
    \/ \E u \in Requesters : ToyCreate(u)
    \/ \E u \in Requesters, t \in ToyIds : ToyDelete(u, t)

Spec == Init /\ [][Next]_vars

(* ------------------------------ claims --------------------------------- *)
\* the cats whose owner is u; whether cat c holds toy t
Owned(u) == {c \in DOMAIN cats : cats[c].user = u}
Linked(c, t) == cat_toys[<<c, t>>] > 0

\* a request of the cat-scoped routes made without an authenticated session
AnonymousCatRequest ==
    \/ cats_index(AnonymousUser)
    \/ \E c \in CatIds : cat_detail(AnonymousUser, c)
    \/ \E c \in CatIds, f \in FeedingForms : add_feeding(AnonymousUser, c, f.meal, f.date)
    \/ \E c \in CatIds, t \in ToyIds : assoc_toy(AnonymousUser, c, t)
    \/ \E c \in CatIds, t \in ToyIds : unassoc_toy(AnonymousUser, c, t)
    \/ \E c \in CatIds, f \in FileNames \cup {NoFile}, ok \in BOOLEAN, k \in Tokens :
          add_photo(AnonymousUser, c, f, ok, k)
    \/ \E n \in Names, b \in Breeds, f \in CatForms :
          CatCreate(AnonymousUser, n, b, f.description, f.age)
    \/ \E c \in CatIds, f \in CatForms : CatUpdate(AnonymousUser, c, f.description, f.age)
    \/ \E c \in CatIds : CatDelete(AnonymousUser, c)

\* C1: the listing cats_index returns to an authenticated user U is exactly
\* the set of cats owned by U (so no cat of U1 is in U2's listing), a cat
\* created by U is owned by U, and a cat of U stays in U's listing through
\* every request but a delete of that cat issued by U.
C1_ListingIsOwnCats ==
    [][ /\ \A u \in users :
             cats_index(u) => response'.context = Owned(u)
        /\ \A u \in users, n \in Names, b \in Breeds, f \in CatForms :
             CatCreate(u, n, b, f.description, f.age) =>
               (DOMAIN cats' \ DOMAIN cats) \subseteq Owned(u)'
        /\ \A u \in users : \A c \in Owned(u) :
             (c \notin Owned(u)') => /\ CatDelete(u, c)
                                     /\ \A v \in Requesters \ {u} : ~CatDelete(v, c)
      ]_vars

\* C2: a request of a cat-scoped route made without an authenticated session
\* is answered with the redirect to the login page, changes no record and
\* attempts no upload.
C2_LoginRequired ==
    [][ AnonymousCatRequest =>
          /\ response'.status = "redirect:login"
          /\ response'.upload = "none"
          /\ UNCHANGED store ]_vars

\* C3: no CatUpdate or CatDelete request of an authenticated user who is not
\* the owner of cat C changes C's description or age or removes C.
C3_OwnerOnly ==
    [][ \A c \in DOMAIN cats : \A u \in users \ {cats[c].user} :
          (\/ CatDelete(u, c)
           \/ \E f \in CatForms : CatUpdate(u, c, f.description, f.age))
          => /\ c \in DOMAIN cats'
             /\ cats'[c].description = cats[c].description
             /\ cats'[c].age = cats[c].age ]_vars

\* C4: for an existing cat C and toy T, assoc_toy(C, T) redirects to the
\* detail page and leaves (C, T) held exactly once and every other pair as it
\* was; run on a state where (C, T) is already held (the state a first call
\* leaves) it changes nothing.  No pair is ever held more than once.
C4_AssocIdempotent ==
    /\ [][ response'.op = "assoc_toy" =>
           \A u \in users, c \in DOMAIN cats, t \in toys :
             assoc_toy(u, c, t) =>
               /\ response'.status = "redirect:cat_detail"
               /\ cat_toys'[<<c, t>>] = 1
               /\ \A p \in DOMAIN cat_toys \ {<<c, t>>} : cat_toys'[p] = cat_toys[p]
               /\ (Linked(c, t) => cat_toys' = cat_toys) ]_vars
    /\ [](\A p \in DOMAIN cat_toys : cat_toys[p] <= 1)

C4_Witness ==
    /\ response.op = "assoc_toy"
    /\ response.status = "redirect:cat_detail"
    /\ \E c \in DOMAIN cats, t \in toys : cat_toys[<<c, t>>] = 1

\* C5: for an existing cat C and toy T that are not associated,
\* unassoc_toy(C, T) redirects to the detail page and changes no record.
C5_UnassocNoOp ==
    [][ response'.op = "unassoc_toy" =>
        \A u \in users, c \in DOMAIN cats, t \in toys :
          (~Linked(c, t) /\ unassoc_toy(u, c, t)) =>
             /\ response'.status = "redirect:cat_detail"
             /\ cat_toys' = cat_toys
             /\ UNCHANGED <<users, store>> ]_vars

C5_Witness ==
    /\ response.op = "unassoc_toy"
    /\ response.status = "redirect:cat_detail"
    /\ \E c \in DOMAIN cats, t \in toys : ~Linked(c, t)

\* C6: add_feeding with a meal outside {B, L, D} or an unparseable date
\* creates no feeding, leaves every record as it was and redirects to the
\* cat's detail page.
C6_InvalidFeedingDropped ==
    [][ response'.op = "add_feeding" =>
        \A u \in users, c \in CatIds, f \in FeedingForms :
          ((f.meal \notin {"B", "L", "D"} \/ f.date \notin ValidDates)
             /\ add_feeding(u, c, f.meal, f.date)) =>
             /\ feedings' = feedings
             /\ UNCHANGED <<users, store>>
             /\ response'.status = "redirect:cat_detail" ]_vars

\* only an invalid submission leaves this state: a valid one either writes
\* feeding 1 or fails on the foreign key
C6_Witness ==
    /\ response.op = "add_feeding"
    /\ response.status = "redirect:cat_detail"
    /\ feeding_seq = 0
    /\ feedings = {}

\* C7: add_photo with no file in the submission changes no record, attempts
\* no upload and redirects to the cat's detail page.
C7_NoFileNoOp ==
    [][ response'.op = "add_photo" =>
        \A u \in Requesters, c \in CatIds, ok \in BOOLEAN, k \in Tokens :
          add_photo(u, c, NoFile, ok, k) =>
             /\ UNCHANGED <<users, store>>
             /\ response'.upload = "none"
             /\ response'.status = "redirect:cat_detail" ]_vars

C7_Witness ==
    /\ response.op = "add_photo"
    /\ response.upload = "none"
    /\ response.status = "redirect:cat_detail"

\* C8: add_photo for an existing cat C with a file whose upload succeeds
\* persists exactly one new Photo, of cat C, whose url is the base URL, the
\* bucket, "/" and the generated key, and redirects to C's detail page.
C8_PhotoPersisted ==
    [][ \A u \in Requesters, c \in DOMAIN cats, f \in FileNames, k \in Tokens :
          add_photo(u, c, f, TRUE, k) =>
             /\ Cardinality(photos' \ photos) = 1
             /\ photos \subseteq photos'
             /\ \A p \in photos' \ photos :
                  /\ p.cat_id = c
                  /\ p.url = "https://s3.us-east-2.amazonaws.com/"
                                \o "djangocatcollectorproject" \o "/" \o photo_key(k, f)
             /\ response'.status = "redirect:cat_detail" ]_vars

\* C9: the toy list cat_detail shows for cat C is the set of toys not
\* associated with C.  After assoc_toy(C, T) the list does not contain T,
\* and after unassoc_toy(C, T) it contains T; for a toy T of the list,
\* assoc_toy(C, T) takes exactly T out of it and the following
\* unassoc_toy(C, T) puts exactly T back, which restores the list.
C9_ToyList ==
    [][ /\ response'.op = "cat_detail" =>
             \A u \in users, c \in DOMAIN cats :
               cat_detail(u, c) => response'.context = {t \in toys : ~Linked(c, t)}
        /\ response'.op = "assoc_toy" =>
             \A u \in users, c \in DOMAIN cats, t \in toys :
               assoc_toy(u, c, t) =>
                 /\ t \notin toys_cat_doesnt_have(c)'
                 /\ toys_cat_doesnt_have(c)' = toys_cat_doesnt_have(c) \ {t}
        /\ response'.op = "unassoc_toy" =>
             \A u \in users, c \in DOMAIN cats, t \in toys :
               unassoc_toy(u, c, t) =>
                 /\ t \in toys_cat_doesnt_have(c)'
                 /\ toys_cat_doesnt_have(c)' = toys_cat_doesnt_have(c) \cup {t} ]_vars

\* the detail page of a cat that holds every toy: the list is empty
C9_Witness ==
    /\ response.op = "cat_detail"
    /\ response.status = "render"
    /\ response.context = {}
    /\ toys # {}

\* C10: a step creates a Feeding only for a cat that is in the store at that
\* moment: add_feeding with a valid form for an identifier that names no cat
\* (never used, or of a deleted cat) creates nothing.
C10_FeedingReferencesCat ==
    [][ /\ \A f \in feedings' \ feedings : f.cat_id \in DOMAIN cats
        /\ response'.op = "add_feeding" =>
             \A u \in users, c \in CatIds \ DOMAIN cats, f \in FeedingForms :
               add_feeding(u, c, f.meal, f.date) => feedings' = feedings ]_vars

\* a valid feeding was posted for the identifier of a deleted cat
C10_Witness ==
    /\ response.op = "add_feeding"
    /\ response.status = "error:IntegrityError"
    /\ cat_seq > 0
    /\ DOMAIN cats = {}
=============================================================================
